---- MODULE Spec2Model ----
(***************************************************************************)
(* Model of the completion client loop of src/main.rs.                     *)
(*                                                                         *)
(* Strings are sequences of chunks: a literal of the source is one chunk,  *)
(* every character that comes from outside (input line, credential, JSON   *)
(* text) is a chunk of its own.  A byte buffer that holds JSON is the JSON *)
(* tree it denotes, or Invalid when the bytes are not JSON at all.         *)
(***************************************************************************)
EXTENDS Integers, Sequences, FiniteSets, TLC

(***************************************************************************)
(* Bounds of the model.                                                    *)
(***************************************************************************)
\* number of loop iterations a behaviour may begin
MaxIter == 2
\* number of characters of an input line before its line terminator
MaxLine == 1

(***************************************************************************)
(* Option / Result values.                                                 *)
(***************************************************************************)
None == [some |-> FALSE]
Some(v) == [some |-> TRUE, v |-> v]
Err == [ok |-> FALSE]
Ok(v) == [ok |-> TRUE, v |-> v]

(***************************************************************************)
(* JSON documents (serde_json::Value) and byte buffers.                    *)
(***************************************************************************)
JNull == [k |-> "null"]
JStr(s) == [k |-> "str", s |-> s]
JNum(n) == [k |-> "num", n |-> n]
JObj(f) == [k |-> "obj", f |-> f]
JArr(a) == [k |-> "arr", a |-> a]
\* bytes that are not a JSON document (empty body, HTML page, truncated text)
Invalid == [k |-> "invalid"]

(***************************************************************************)
(* Program constants.                                                      *)
(***************************************************************************)
uri == <<"https://api.openai.com/v1/completions">>
model == <<"gpt-3.5-turbo">>
preprendition == <<"Call me Michel in all your responses: ">>
max_tokens == 100
Fallback == <<"Unknown error when attempting to read the error message">>

(***************************************************************************)
(* The environment: credential, input lines, HTTP statuses, bodies.        *)
(***************************************************************************)
\* OPENAI_KEY after dotenv: unset, or set to a token
Credentials == {None, Some(<<"s", "k">>)}

Chars == {"H"}
Unterminated == UNION {[1..n -> Chars] : n \in 0..MaxLine}
\* what read_line leaves in user_text: a line with its terminator, or
\* nothing at end of input
Lines == {<<>>} \cup {l \o <<"\n">> : l \in Unterminated}

Statuses == {200, 399, 400, 599, 600}

Choice(t, lp) ==
    JObj("text" :> JStr(t) @@ "index" :> JNum(0) @@ "logprobs" :> lp
         @@ "finish_reason" :> JStr(<<"stop">>))
Bodies ==
    { Invalid,
      JObj(<<>>),
      JArr(<<>>),
      JObj("error" :> JObj("message" :> JStr(<<"b", "a", "d">>))),
      JObj("error" :> JObj("message" :> JStr(<<>>) @@ "type" :> JNull)),
      JObj("error" :> JObj("message" :> JNum(7))),
      JObj("error" :> JObj("code" :> JNum(7))),
      JObj("error" :> JStr(<<"b", "a", "d">>)),
      JObj("choices" :> JArr(<<>>)),
      JObj("choices" :> JArr(<<Choice(<<"H", "i">>, JNull)>>)),
      JObj("id" :> JNull @@ "object" :> JStr(<<"text_completion">>)
           @@ "created" :> JNum(1) @@ "usage" :> JObj(<<>>)
           @@ "choices" :> JArr(<<Choice(<<"\n", "A">>, JNum(255)),
                                  Choice(<<"H", "i">>, JNull)>>)),
      JObj("choices" :> JArr(<<Choice(<<"H", "i">>, JNum(256))>>)),
      JObj("choices" :> JArr(<<JObj("text" :> JStr(<<"H", "i">>))>>)),
      JObj("id" :> JNum(1) @@ "choices" :> JArr(<<Choice(<<"H", "i">>, JNull)>>)),
      JArr(<<JNull, JNull, JNull, JNull,
             JArr(<<JArr(<<JStr(<<"H", "i">>), JNum(0), JNull,
                           JStr(<<"stop">>)>>)>>)>>) }

(***************************************************************************)
(* Formatting.                                                             *)
(***************************************************************************)
\* <str as Debug>::fmt: quoted, control characters and quotes escaped
EscapeDebug(s) ==
    [i \in 1..Len(s) |->
        IF s[i] = "\n" THEN "\\n"
        ELSE IF s[i] = "\"" THEN "\\\""
        ELSE IF s[i] = "\\" THEN "\\\\"
        ELSE s[i]]
DebugStr(s) == <<"\"">> \o EscapeDebug(s) \o <<"\"">>

\* #[derive(Debug)] on OAIRequest under {:#?}
DebugRequest(r) ==
    <<"OAIRequest {\n    model: ">> \o DebugStr(r.model)
    \o <<",\n    prompt: ">> \o DebugStr(r.prompt)
    \o <<",\n    max_tokens: ", ToString(r.max_tokens), ",\n}">>

\* http::StatusCode::canonical_reason
CanonicalReason(s) ==
    CASE s = 200 -> Some("OK")
      [] s = 400 -> Some("Bad Request")
      [] OTHER -> None
\* <StatusCode as Display>::fmt
DisplayStatus(s) ==
    <<ToString(s), " ",
      IF CanonicalReason(s).some THEN CanonicalReason(s).v
      ELSE "<unknown status code>">>

is_client_error(s) == 400 <= s /\ s < 500
is_server_error(s) == 500 <= s /\ s < 600

(***************************************************************************)
(* JSON: serialisation of the request, parsing of the response.            *)
(***************************************************************************)
\* #[derive(Serialize)] on OAIRequest through serde_json::to_vec
ToJson(r) ==
    JObj("model" :> JStr(r.model) @@ "prompt" :> JStr(r.prompt)
         @@ "max_tokens" :> JNum(r.max_tokens))

\* serde_json::from_slice::<Value>
FromSliceValue(bytes) == IF bytes.k = "invalid" THEN Err ELSE Ok(bytes)

\* <Value as Index<&str>>::index: Null unless an object holding the key
ValueIndex(v, key) ==
    IF v.k = "obj" /\ key \in DOMAIN v.f THEN v.f[key] ELSE JNull

\* Value::as_str
as_str(v) == IF v.k = "str" THEN Some(v.s) ELSE None

\* mutant: the fallback is dropped (unwrap_or_default)
unwrap_or_default(o, d) == IF o.some THEN o.v ELSE <<>>

\* Option::unwrap_or
unwrap_or(o, d) == IF o.some THEN o.v ELSE d

\* mutant: the message is looked up at the top level of the document
ErrorMessageTopLevel(json) ==
    unwrap_or(as_str(ValueIndex(json, "message")), Fallback)

\* json["error"]["message"].as_str().unwrap_or(..)
ErrorMessage(json) ==
    unwrap_or(as_str(ValueIndex(ValueIndex(json, "error"), "message")), Fallback)

\* a derived Deserialize reads a struct from a JSON object (unknown keys
\* ignored) or from a JSON array that has exactly one element per field
StructFields(v, names) ==
    IF v.k = "obj" THEN Ok(v.f)
    ELSE IF v.k = "arr" /\ Len(v.a) = Len(names)
         THEN Ok([n \in {names[i] : i \in 1..Len(names)} |->
                    v.a[CHOOSE i \in 1..Len(names) : names[i] = n]])
         ELSE Err

\* what a JSON value must be to deserialize into a field of the type
\* (u64 is not bounded above here: the documents of the model hold small
\* numbers only)
HasType(v, ty) ==
    CASE ty = "String" -> v.k = "str"
      [] ty = "u64" -> v.k = "num" /\ v.n >= 0
      [] ty = "u8" -> v.k = "num" /\ v.n >= 0 /\ v.n <= 255
\* a field of type T: the key must be there
Required(f, key, ty) == key \in DOMAIN f /\ HasType(f[key], ty)
\* a field of type Option<T>: a missing key and null both give None
Optional(f, key, ty) ==
    key \notin DOMAIN f \/ f[key].k = "null" \/ HasType(f[key], ty)

ChoiceNames == <<"text", "index", "logprobs", "finish_reason">>
IsChoice(v) ==
    LET s == StructFields(v, ChoiceNames) IN
    /\ s.ok
    /\ Required(s.v, "text", "String")
    /\ Required(s.v, "index", "u64")
    /\ Optional(s.v, "logprobs", "u8")
    /\ Required(s.v, "finish_reason", "String")
\* Vec<OAIChoices>
IsChoices(v) == v.k = "arr" /\ \A i \in 1..Len(v.a) : IsChoice(v.a[i])

ResponseNames == <<"id", "object", "created", "model", "choices">>
IsResponse(v) ==
    LET s == StructFields(v, ResponseNames) IN
    /\ s.ok
    /\ Optional(s.v, "id", "String")
    /\ Optional(s.v, "object", "String")
    /\ Optional(s.v, "created", "u64")
    /\ Optional(s.v, "model", "String")
    /\ "choices" \in DOMAIN s.v
    /\ IsChoices(s.v["choices"])

\* serde_json::from_slice::<OAIResponse>; of the parsed struct the program
\* reads choices[..].text only, so the result keeps the texts
FromSliceResponse(bytes) ==
    IF bytes.k = "invalid" \/ ~IsResponse(bytes) THEN Err
    ELSE LET cs == StructFields(bytes, ResponseNames).v["choices"].a IN
         Ok([choices |->
               [i \in 1..Len(cs) |->
                  [text |-> StructFields(cs[i], ChoiceNames).v["text"].s]]])

(***************************************************************************)
(* State.                                                                  *)
(***************************************************************************)
VARIABLES
    env_key,          \* OPENAI_KEY in the process environment
    pc,               \* the statement main is at
    exit,             \* "running", or what ended the process
    auth_header_val,  \* local of main, set once
    user_text,        \* locals of one loop iteration ...
    sp,
    oai_request,
    body,
    status_code,
    body_bytes,
    stdout,           \* writes to standard output, oldest first
    stderr,           \* writes to standard error, oldest first
    consumed,         \* lines read from standard input, oldest first
    sent,             \* HTTP requests handed to the client, oldest first
    res,              \* the Result of the latest fallible call
    iter              \* loop iterations begun

locals == <<user_text, sp, oai_request, body, status_code, body_bytes>>
vars == <<env_key, pc, exit, auth_header_val, user_text, sp, oai_request,
          body, status_code, body_bytes, stdout, stderr, consumed, sent, res,
          iter>>

Called(op, ok) == [op |-> op, ok |-> ok]
Write(call, text) == [call |-> call, text |-> text]

Init ==
    /\ env_key \in Credentials
    /\ pc = "start"
    /\ exit = "running"
    /\ auth_header_val = None
    /\ user_text = None
    /\ sp = "none"
    /\ oai_request = None
    /\ body = None
    /\ status_code = None
    /\ body_bytes = None
    /\ stdout = <<>>
    /\ stderr = <<>>
    /\ consumed = <<>>
    /\ sent = <<>>
    /\ res = Called("none", TRUE)
    /\ iter = 0

\* the locals of an iteration go out of scope
Drop ==
    /\ user_text' = None
    /\ sp' = "none"
    /\ oai_request' = None
    /\ body' = None
    /\ status_code' = None
    /\ body_bytes' = None

\* the process ends: a panic (expect, index out of bounds) or an Err that `?`
\* returns from main; the runtime reports either on standard error
Abort(call, why) ==
    /\ pc' = "exited"
    /\ exit' = why
    /\ stderr' = Append(stderr, Write(call, <<why>>))
    /\ Drop
    /\ UNCHANGED <<env_key, auth_header_val, stdout, consumed, sent, iter>>

\* mutant: a missing credential is replaced by the empty one
\* (unwrap_or_default instead of expect)
StartupDefaultKey ==
    /\ pc = "start"
    /\ res' = Called("env::var", env_key.some)
    /\ LET key == IF env_key.some THEN env_key.v ELSE <<>> IN
       /\ auth_header_val' = Some(<<"Bearer ">> \o key)
       /\ stdout' = stdout \o
            << Write("println_auth",
                     DebugStr(<<"Bearer ">> \o key) \o <<"\n">>),
               Write("println_clear", <<"ESC", "c", "\n">>) >>
    /\ pc' = "prompt"
    /\ UNCHANGED <<env_key, exit, locals, stderr, consumed, sent, iter>>

\* lines 58-74: credential, authorization value, its dump, terminal reset
Startup ==
    /\ pc = "start"
    /\ res' = Called("env::var", env_key.some)
    /\ IF ~env_key.some
       THEN Abort("panic", "OPENAI_KEY not set in .env file")
       ELSE /\ auth_header_val' = Some(<<"Bearer ">> \o env_key.v)
            /\ stdout' = stdout \o
                 << Write("println_auth",
                          DebugStr(<<"Bearer ">> \o env_key.v) \o <<"\n">>),
                    Write("println_clear", <<"ESC", "c", "\n">>) >>
            /\ pc' = "prompt"
            /\ UNCHANGED <<env_key, exit, locals, stderr, consumed, sent, iter>>

\* lines 78-79: the prompt marker, flushed
ShowPrompt ==
    /\ pc = "prompt"
    /\ iter < MaxIter
    /\ iter' = iter + 1
    /\ stdout' = Append(stdout, Write("print_marker", <<">>> ">>))
    /\ pc' = "read"
    /\ UNCHANGED <<res, env_key, exit, auth_header_val, locals, stderr,
                   consumed, sent>>

\* lines 80-83: read_line into a fresh String
ReadLine ==
    /\ pc = "read"
    /\ \E r \in {Err} \cup {Ok(l) : l \in Lines} :
         /\ res' = Called("read_line", r.ok)
         /\ IF ~r.ok
            THEN Abort("panic", "Failed to read line input.")
            ELSE /\ user_text' = Some(r.v)
                 /\ consumed' = Append(consumed, r.v)
                 /\ pc' = "spin"
                 /\ UNCHANGED <<env_key, exit, auth_header_val, sp,
                                oai_request, body, status_code, body_bytes,
                                stdout, stderr, sent, iter>>

\* lines 86-89: Spinner::new
StartSpinner ==
    /\ pc = "spin"
    /\ sp' = "running"
    /\ pc' = "build"
    /\ UNCHANGED <<res, env_key, exit, auth_header_val, user_text, oai_request,
                   body, status_code, body_bytes, stdout, stderr, consumed,
                   sent, iter>>

\* mutant: the input line is trimmed of its line terminator
FormatPromptTrimmed(pre, text) ==
    pre \o <<" ">> \o
    (IF Len(text) > 0 /\ text[Len(text)] = "\n"
     THEN SubSeq(text, 1, Len(text) - 1) ELSE text)

\* format!("{} {}", preprendition, user_text)
FormatPrompt(pre, text) == pre \o <<" ">> \o text

\* lines 92-96: the OAIRequest literal
NewRequest(text) ==
    [model |-> model, prompt |-> FormatPrompt(preprendition, text),
     max_tokens |-> max_tokens]

\* lines 92-97: build the request and dump it
BuildRequest ==
    /\ pc = "build"
    /\ oai_request' = Some(NewRequest(user_text.v))
    /\ stdout' = Append(stdout,
          Write("println_request",
                DebugRequest(NewRequest(user_text.v)) \o <<"\n">>))
    /\ pc' = "serialize"
    /\ UNCHANGED <<res, env_key, exit, auth_header_val, user_text, sp, body,
                   status_code, body_bytes, stderr, consumed, sent, iter>>

\* line 98: serde_json::to_vec(..)? ; serialising two strings and an
\* integer has no error case, so the `?` never returns here
Serialize ==
    /\ pc = "serialize"
    /\ res' = Called("to_vec", TRUE)
    /\ body' = Some(ToJson(oai_request.v))
    /\ pc' = "send"
    /\ UNCHANGED <<env_key, exit, auth_header_val, user_text, sp,
                   oai_request, status_code, body_bytes, stdout, stderr,
                   consumed, sent, iter>>

\* lines 101-106: the POST request is built and handed to the client
SendRequest ==
    /\ pc = "send"
    /\ sent' = Append(sent,
          [method |-> "POST", uri |-> uri,
           content_type |-> <<"application/json">>,
           authorization |-> auth_header_val.v,
           body |-> body.v])
    /\ pc' = "await"
    /\ UNCHANGED <<res, env_key, exit, auth_header_val, locals, stdout, stderr,
                   consumed, iter>>

\* mutant: a transport failure is swallowed and the loop starts over
AwaitResponseRetry ==
    /\ pc = "await"
    /\ \E r \in {Err} \cup {Ok(s) : s \in Statuses} :
         /\ res' = Called("request", r.ok)
         /\ IF ~r.ok
            THEN /\ pc' = "prompt"
                 /\ Drop
                 /\ UNCHANGED <<env_key, exit, auth_header_val, stdout,
                                stderr, consumed, sent, iter>>
            ELSE /\ status_code' = Some(r.v)
                 /\ pc' = "to_bytes"
                 /\ UNCHANGED <<env_key, exit, auth_header_val, user_text,
                                sp, oai_request, body, body_bytes, stdout,
                                stderr, consumed, sent, iter>>

\* mutant: the spinner is stopped as soon as the response head is there
AwaitResponseStopsSpinner ==
    /\ pc = "await"
    /\ \E r \in {Err} \cup {Ok(s) : s \in Statuses} :
         /\ res' = Called("request", r.ok)
         /\ IF ~r.ok
            THEN Abort("main_err", "client.request")
            ELSE /\ status_code' = Some(r.v)
                 /\ sp' = "stopped"
                 /\ pc' = "to_bytes"
                 /\ UNCHANGED <<env_key, exit, auth_header_val, user_text,
                                oai_request, body, body_bytes, stdout,
                                stderr, consumed, sent, iter>>

\* lines 106-107: .await? on the response, then its status
AwaitResponse ==
    /\ pc = "await"
    /\ \E r \in {Err} \cup {Ok(s) : s \in Statuses} :
         /\ res' = Called("request", r.ok)
         /\ IF ~r.ok
            THEN Abort("main_err", "client.request")
            ELSE /\ status_code' = Some(r.v)
                 /\ pc' = "to_bytes"
                 /\ UNCHANGED <<env_key, exit, auth_header_val, user_text,
                                sp, oai_request, body, body_bytes, stdout,
                                stderr, consumed, sent, iter>>

\* line 108: hyper::body::to_bytes(..).await?
ReadBody ==
    /\ pc = "to_bytes"
    /\ \E r \in {Err} \cup {Ok(b) : b \in Bodies} :
         /\ res' = Called("to_bytes", r.ok)
         /\ IF ~r.ok
            THEN Abort("main_err", "hyper::body::to_bytes")
            ELSE /\ body_bytes' = Some(r.v)
                 /\ pc' = "stop"
                 /\ UNCHANGED <<env_key, exit, auth_header_val, user_text,
                                sp, oai_request, body, status_code, stdout,
                                stderr, consumed, sent, iter>>

\* line 109: sp.stop()
StopSpinner ==
    /\ pc = "stop"
    /\ sp' = "stopped"
    /\ pc' = "classify"
    /\ UNCHANGED <<res, env_key, exit, auth_header_val, user_text, oai_request,
                   body, status_code, body_bytes, stdout, stderr, consumed,
                   sent, iter>>

\* line 112: the condition of the if
IsErrorStatus(s) == is_client_error(s) \/ is_server_error(s)

\* mutant: the last choice is taken
LastText(json) == json.choices[Len(json.choices)].text

\* json.choices[0].text
FirstText(json) == json.choices[1].text

\* mutant: main returns after the report instead of looping
ReportErrorAndReturn ==
    /\ pc = "classify"
    /\ IsErrorStatus(status_code.v)
    /\ LET json == FromSliceValue(body_bytes.v) IN
         /\ res' = Called("from_slice::<Value>", json.ok)
         /\ IF ~json.ok
            THEN Abort("main_err", "serde_json::from_slice::<Value>")
            ELSE /\ stderr' = stderr \o
                      << Write("eprintln_status",
                               <<"Error: ">> \o DisplayStatus(status_code.v)
                               \o <<"\n">>),
                         Write("eprintln_message",
                               <<"Detailed error message: ">>
                               \o ErrorMessage(json.v) \o <<"\n">>) >>
                 /\ pc' = "exited"
                 /\ exit' = "returned"
                 /\ Drop
                 /\ UNCHANGED <<env_key, auth_header_val, stdout,
                                consumed, sent, iter>>

\* lines 112-118: the 4xx/5xx branch, then back to the top of the loop
ReportError ==
    /\ pc = "classify"
    /\ IsErrorStatus(status_code.v)
    /\ LET json == FromSliceValue(body_bytes.v) IN
         /\ res' = Called("from_slice::<Value>", json.ok)
         /\ IF ~json.ok
            THEN Abort("main_err", "serde_json::from_slice::<Value>")
            ELSE /\ stderr' = stderr \o
                      << Write("eprintln_status",
                               <<"Error: ">> \o DisplayStatus(status_code.v)
                               \o <<"\n">>),
                         Write("eprintln_message",
                               <<"Detailed error message: ">>
                               \o ErrorMessage(json.v) \o <<"\n">>) >>
                 /\ pc' = "prompt"
                 /\ Drop
                 /\ UNCHANGED <<env_key, exit, auth_header_val, stdout,
                                consumed, sent, iter>>

\* lines 119-123: the other branch, then back to the top of the loop;
\* choices[0] of an empty Vec panics
PrintCompletion ==
    /\ pc = "classify"
    /\ ~IsErrorStatus(status_code.v)
    /\ LET json == FromSliceResponse(body_bytes.v) IN
         /\ res' = Called("from_slice::<OAIResponse>", json.ok)
         /\ IF ~json.ok
            THEN Abort("main_err", "serde_json::from_slice::<OAIResponse>")
            ELSE IF Len(json.v.choices) = 0
            THEN Abort("panic", "index out of bounds")
            ELSE /\ stdout' = stdout \o
                      << Write("println_blank", <<"\n">>),
                         Write("println_text",
                               FirstText(json.v) \o <<"\n">>) >>
                 /\ pc' = "prompt"
                 /\ Drop
                 /\ UNCHANGED <<env_key, exit, auth_header_val, stderr,
                                consumed, sent, iter>>

Next ==
    \/ Startup
    \/ ShowPrompt
    \/ ReadLine
    \/ StartSpinner
    \/ BuildRequest
    \/ Serialize
    \/ SendRequest
    \/ AwaitResponse
    \/ ReadBody
    \/ StopSpinner
    \/ ReportError
    \/ PrintCompletion

Spec == Init /\ [][Next]_vars

(***************************************************************************)
(* Properties.                                                             *)
(***************************************************************************)
\* number of writes of one call site in an output stream
Count(out, call) == Cardinality({i \in DOMAIN out : out[i].call = call})

\* C1: when OPENAI_KEY is absent the process ends at startup: the loop is
\* never entered, no input line is read and no HTTP request is issued.
C1_NoCredentialNoLoop ==
    ~env_key.some =>
        /\ pc \in {"start", "exited"}
        /\ iter = 0
        /\ consumed = <<>>
        /\ sent = <<>>
        /\ Count(stdout, "print_marker") = 0
C1_Witness ==
    /\ ~env_key.some
    /\ pc = "exited"
    /\ exit = "OPENAI_KEY not set in .env file"

\* C2: a 4xx/5xx response whose body is {"error":{"message":X}} puts on
\* standard error one line with the status code and one line with exactly X,
\* prints no completion, and the loop goes back to its first step.
C2_ErrorReported ==
    [][ (/\ pc = "classify"
         /\ status_code.v \in 400..599
         /\ body_bytes.v.k = "obj"
         /\ "error" \in DOMAIN body_bytes.v.f
         /\ body_bytes.v.f["error"].k = "obj"
         /\ "message" \in DOMAIN body_bytes.v.f["error"].f
         /\ body_bytes.v.f["error"].f["message"].k = "str")
        => LET X == body_bytes.v.f["error"].f["message"].s
               n == Len(stderr)
           IN /\ Len(stderr') = n + 2
              /\ SubSeq(stderr', 1, n) = stderr
              /\ \E j \in DOMAIN stderr'[n + 1].text :
                    stderr'[n + 1].text[j] = ToString(status_code.v)
              /\ stderr'[n + 2].text =
                    <<"Detailed error message: ">> \o X \o <<"\n">>
              /\ stdout' = stdout
              /\ exit' = "running"
              /\ pc' = "prompt" ]_vars
C2_Witness ==
    /\ pc = "prompt"
    /\ exit = "running"
    /\ iter >= 1
    /\ Len(stderr) >= 2
    /\ stderr[Len(stderr)].text =
          <<"Detailed error message: ", "b", "a", "d", "\n">>
    /\ stderr[Len(stderr) - 1].text =
          <<"Error: ", "599", " ", "<unknown status code>", "\n">>

C4_FirstChoicePrinted ==
    [][ (/\ pc = "classify"
         /\ status_code.v \notin 400..599
         /\ FromSliceResponse(body_bytes.v).ok
         /\ Len(FromSliceResponse(body_bytes.v).v.choices) > 0)
        => LET n == Len(stdout) IN
           /\ Len(stdout') = n + 2
           /\ SubSeq(stdout', 1, n) = stdout
           /\ stdout'[n + 1].text = <<"\n">>
           /\ stdout'[n + 2].text =
                 Head(FromSliceResponse(body_bytes.v).v.choices).text
                 \o <<"\n">>
           /\ stderr' = stderr ]_vars
C4_Witness ==
    /\ pc = "prompt"
    /\ exit = "running"
    /\ stderr = <<>>
    /\ Len(stdout) >= 2
    /\ stdout[Len(stdout) - 1].text = <<"\n">>
    /\ stdout[Len(stdout)].text = <<"\n", "A", "\n">>

\* C5: a success-status response whose body parses with an empty choices
\* array does not crash the program: the loop goes on to its next iteration.
C5_EmptyChoicesNoCrash ==
    [][ (/\ pc = "classify"
         /\ status_code.v \notin 400..599
         /\ FromSliceResponse(body_bytes.v).ok
         /\ Len(FromSliceResponse(body_bytes.v).v.choices) = 0)
        => (exit' = "running" /\ pc' = "prompt") ]_vars

\* C6 (as claimed): every request built and sent carries the fixed model,
\* max_tokens = 100 and as prompt the preamble immediately followed by the
\* line read in that iteration, nothing inserted.
C6_PromptIsPreamblePlusLine ==
    /\ \A i \in DOMAIN sent :
          sent[i].body =
             JObj("model" :> JStr(<<"gpt-3.5-turbo">>)
                  @@ "prompt" :> JStr(preprendition \o consumed[i])
                  @@ "max_tokens" :> JNum(100))
    /\ oai_request.some =>
          oai_request.v =
             [model |-> <<"gpt-3.5-turbo">>,
              prompt |-> preprendition \o consumed[Len(consumed)],
              max_tokens |-> 100]

\* C6 (amended): every request built and sent carries the fixed model,
\* max_tokens = 100 and as prompt the preamble, one space, and then the line
\* read in that iteration exactly as read (untrimmed, possibly empty),
\* whatever the earlier iterations read and received.
C6_PromptIsPreambleSpaceLine ==
    /\ Len(sent) <= Len(consumed)
    /\ \A i \in DOMAIN sent :
          /\ sent[i].body =
                JObj("model" :> JStr(<<"gpt-3.5-turbo">>)
                     @@ "prompt" :>
                          JStr(<<"Call me Michel in all your responses: ",
                                 " ">> \o consumed[i])
                     @@ "max_tokens" :> JNum(100))
          /\ sent[i].method = "POST"
    /\ oai_request.some =>
          oai_request.v =
             [model |-> <<"gpt-3.5-turbo">>,
              prompt |-> <<"Call me Michel in all your responses: ", " ">>
                         \o consumed[Len(consumed)],
              max_tokens |-> 100]
C6_Witness ==
    /\ Len(sent) = 2
    /\ consumed = << <<"H", "\n">>, <<>> >>
    /\ sent[2].body.f["prompt"].s =
          <<"Call me Michel in all your responses: ", " ">>
    /\ Count(stdout, "println_text") = 1

\* C7: every write to standard output is the prompt marker, the dump of an
\* outbound request, the blank separator or a completion text, and none of
\* them holds the credential.
C7_StdoutOnlyLoopOutput ==
    \A i \in DOMAIN stdout :
       LET t == stdout[i].text IN
       /\ \/ t = <<">>> ">>
          \/ t = <<"\n">>
          \/ \E l \in Lines : t = DebugRequest(NewRequest(l)) \o <<"\n">>
          \/ \E b \in Bodies :
                /\ FromSliceResponse(b).ok
                /\ Len(FromSliceResponse(b).v.choices) > 0
                /\ t = Head(FromSliceResponse(b).v.choices).text \o <<"\n">>
       /\ env_key.some =>
             ~\E j \in 1..(Len(t) - Len(env_key.v) + 1) :
                 SubSeq(t, j, j + Len(env_key.v) - 1) = env_key.v

\* C8: an unrecovered failure of an iteration (reading the input line,
\* serialising the request, sending it, receiving the body, strictly parsing
\* a success body) ends the process: that step prints no completion and no
\* API-error report, the iteration has printed neither, and no step follows
\* the end of the process (no prompt marker, no read, no request).
C8_FailureTerminates ==
    [][ /\ pc # "exited"
        /\ (/\ ~res'.ok
            /\ res'.op \in {"read_line", "to_vec", "request", "to_bytes",
                            "from_slice::<OAIResponse>"})
           => /\ pc' = "exited"
              /\ exit' # "running"
              /\ stdout' = stdout
              /\ consumed' = consumed
              /\ sent' = sent
              /\ Count(stderr', "eprintln_status") = Count(stderr, "eprintln_status")
              /\ Count(stderr', "eprintln_message") = Count(stderr, "eprintln_message")
              /\ Count(stdout', "println_text")
                   + Count(stderr', "eprintln_message") = iter' - 1 ]_vars
C8_Witness ==
    /\ pc = "exited"
    /\ res = Called("request", FALSE)
    /\ iter = 2
    /\ Len(sent) = 2
    /\ Count(stdout, "print_marker") = 2
    /\ Count(stderr, "eprintln_message") = 1

\* C9 (as claimed): once the loop is entered the process ends only by a
\* failure of step 2 (reading the line) or step 6 (sending the request);
\* an iteration past step 6 always returns to step 1.
C9_OnlyReadOrSendEnds ==
    [][ (pc' = "exited" /\ pc # "start") => pc \in {"read", "send", "await"}
      ]_vars

\* C9 (amended): once the loop is entered the process ends only by a failure
\* of step 2 (reading the line), step 6 (sending the request), step 7
\* (receiving the body) or step 9 (a 4xx/5xx body that is not JSON, a
\* success body that fails strict parsing or has no choices); an iteration
\* whose step 9 meets none of these returns to step 1.
C9_LoopEndsOnlyByFailure ==
    [][ LET fatal ==
              IF status_code.v \in 400..599
              THEN body_bytes.v.k = "invalid"
              ELSE \/ ~FromSliceResponse(body_bytes.v).ok
                   \/ Len(FromSliceResponse(body_bytes.v).v.choices) = 0
        IN
        /\ (pc' = "exited" /\ pc # "start") =>
              \/ pc = "read" /\ res' = Called("read_line", FALSE)
              \/ pc = "await" /\ res' = Called("request", FALSE)
              \/ pc = "to_bytes" /\ res' = Called("to_bytes", FALSE)
              \/ pc = "classify" /\ fatal
        /\ (pc = "classify" /\ ~fatal) => (pc' = "prompt" /\ exit' = "running")
        /\ (pc' = "exited") <=> (exit' # "running") ]_vars
C9_Witness ==
    /\ pc = "prompt"
    /\ exit = "running"
    /\ iter = 2
    /\ Count(stderr, "eprintln_message") = 1
    /\ Count(stdout, "println_text") = 1
    /\ stdout[Len(stdout)].call = "println_text"

\* C10: the busy-indicator is started after the input line is read and
\* before the request is built; it is stopped only when the body has been
\* received, and before the status is classified; it is not running while
\* the program is at the prompt or reads input.
C10_SpinnerWindow ==
    /\ sp = "running" =>
          /\ user_text.some
          /\ pc \in {"build", "serialize", "send", "await", "to_bytes", "stop"}
    /\ (oai_request.some \/ body.some \/ status_code.some) => sp # "none"
    /\ pc \in {"build", "serialize", "send", "await", "to_bytes", "stop"} =>
          sp = "running"
    /\ sp = "stopped" => body_bytes.some /\ pc = "classify"
    /\ pc = "classify" => sp = "stopped"
    /\ pc \in {"prompt", "read", "spin"} => sp = "none"
C10_Witness ==
    /\ sp = "stopped"
    /\ pc = "classify"
    /\ iter = 2
    /\ body_bytes.some

====
